---- MODULE Spec2Model ----
(***************************************************************************)
(* Model of subtitle_renamer/organizer.py: the episode-number matchers     *)
(* (heuristic chain, modes A, B and F), the configuration loader and       *)
(* extractor factory, and VideoOrganizer.organize walking a directory      *)
(* tree.  File names are sequences of one-character strings so that the    *)
(* regular expressions of the source can be evaluated character by         *)
(* character.                                                              *)
(***************************************************************************)
EXTENDS Integers, Sequences, FiniteSets, TLC

(***************************************************************************)
(* Characters.  Alphabet lists the characters of the model in code-point   *)
(* order, which is the order Python's sorted() uses on str.                *)
(***************************************************************************)
DigitSeq == <<"0", "1", "2", "3", "4", "5", "6", "7", "8", "9">>

UpperSeq == <<"A", "B", "C", "D", "E", "F", "G", "H", "I", "J", "K", "L", "M",
              "N", "O", "P", "Q", "R", "S", "T", "U", "V", "W", "X", "Y", "Z">>

LowerSeq == <<"a", "b", "c", "d", "e", "f", "g", "h", "i", "j", "k", "l", "m",
              "n", "o", "p", "q", "r", "s", "t", "u", "v", "w", "x", "y", "z">>

Alphabet == <<" ", ".">> \o DigitSeq \o UpperSeq \o <<"[", "]">> \o LowerSeq
            \o <<"{", "}">>

Chars == {Alphabet[i] : i \in 1..Len(Alphabet)}

OrdOf == [c \in Chars |-> CHOOSE i \in 1..Len(Alphabet) : Alphabet[i] = c]

LowerOf == [c \in Chars |->
             IF \E i \in 1..Len(UpperSeq) : UpperSeq[i] = c
             THEN LowerSeq[CHOOSE i \in 1..Len(UpperSeq) : UpperSeq[i] = c]
             ELSE c]

DigitValue == [c \in {DigitSeq[i] : i \in 1..Len(DigitSeq)} |->
                (CHOOSE i \in 1..Len(DigitSeq) : DigitSeq[i] = c) - 1]

\* the lower-case form of a character (itself outside the alphabet)
LowerC(c) == IF c \in Chars THEN LowerOf[c] ELSE c

IsDigit(c) == c \in DOMAIN DigitValue

IsSpace(c) == c = " "

\* str.lower()
Lower(s) == [i \in 1..Len(s) |-> LowerOf[s[i]]]

\* s[i] when i is a position of s, and a character of no class otherwise
At(s, i) == IF i \in 1..Len(s) THEN s[i] ELSE "$"

Min(a, b) == IF a <= b THEN a ELSE b

\* Python's str < str: lexicographic by code point, a proper prefix first
RECURSIVE StrLess(_, _)
StrLess(a, b) ==
  IF b = <<>> THEN FALSE
  ELSE IF a = <<>> THEN TRUE
  ELSE IF a[1] = b[1] THEN StrLess(Tail(a), Tail(b))
  ELSE OrdOf[a[1]] < OrdOf[b[1]]

\* sorted(names) for a set of distinct names
RECURSIVE SortedSeq(_)
SortedSeq(S) ==
  IF S = {} THEN <<>>
  ELSE LET m == CHOOSE x \in S : \A y \in S \ {x} : StrLess(x, y)
       IN <<m>> \o SortedSeq(S \ {m})

\* Optional[int]: <<>> is None, <<n>> is the integer n
None == <<>>

Some(n) == <<n>>

\* int(digits) for a non-empty string of decimal digits
RECURSIVE ToInt(_)
ToInt(ds) ==
  IF ds = <<>> THEN 0
  ELSE 10 * ToInt(SubSeq(ds, 1, Len(ds) - 1)) + DigitValue[ds[Len(ds)]]

\* str(n) for n >= 0
RECURSIVE ToDigits(_)
ToDigits(n) ==
  IF n < 10 THEN <<DigitSeq[n + 1]>>
  ELSE ToDigits(n \div 10) \o <<DigitSeq[(n % 10) + 1]>>

\* format(n, "02d") for n >= 0
Fmt02(n) == IF n < 10 THEN <<"0">> \o ToDigits(n) ELSE ToDigits(n)

\* length of the run of digits of s that starts at position i (0 if none)
RECURSIVE DigitRunLen(_, _)
DigitRunLen(s, i) ==
  IF IsDigit(At(s, i)) THEN 1 + DigitRunLen(s, i + 1) ELSE 0

\* length of the run of whitespace of s that starts at position i
RECURSIVE SpaceRunLen(_, _)
SpaceRunLen(s, i) ==
  IF IsSpace(At(s, i)) THEN 1 + SpaceRunLen(s, i + 1) ELSE 0

\* whether literal tok occurs in s at position i; ci: re.IGNORECASE
LitAt(s, i, tok, ci) ==
  /\ i >= 1
  /\ i + Len(tok) - 1 <= Len(s)
  /\ \A k \in 1..Len(tok) :
       IF ci THEN LowerOf[s[i + k - 1]] = LowerOf[tok[k]]
       ELSE s[i + k - 1] = tok[k]

\* str.find(tok, start) with 1-based positions; 0 when not found
Find(s, tok, start) ==
  LET hits == {p \in start..Len(s) + 1 : LitAt(s, p, tok, FALSE)}
  IN IF hits = {} THEN 0 ELSE CHOOSE p \in hits : \A q \in hits : p <= q

\* the smallest element of a non-empty set of positions
Least(S) == CHOOSE p \in S : \A q \in S : p <= q

(***************************************************************************)
(* Pattern matchers.  os.path.basename is the identity on the names of the *)
(* model, which are single path components.                                *)
(***************************************************************************)

\* length matched by (?:[vV]\d+)? at position j when nothing constrains what
\* follows: "v" and the whole digit run after it, or nothing
VersionLen(s, j) ==
  IF LowerC(At(s, j)) = "v" /\ DigitRunLen(s, j + 1) >= 1
  THEN 1 + DigitRunLen(s, j + 1)
  ELSE 0

\* [m.group(1) for m in pattern.finditer(base)] for the pattern
\* (\d{1,3}) followed, when ivs, by (?:[vV]\d+)?, scanning from position i
RECURSIVE FindNumbers(_, _, _)
FindNumbers(s, i, ivs) ==
  IF i > Len(s) THEN <<>>
  ELSE IF IsDigit(s[i])
  THEN LET k == Min(3, DigitRunLen(s, i))
           v == IF ivs THEN VersionLen(s, i + k) ELSE 0
       IN <<SubSeq(s, i, i + k - 1)>> \o FindNumbers(s, i + k + v, ivs)
  ELSE FindNumbers(s, i + 1, ivs)

\* seq[idx - 1] if idx > 0 else seq[idx], after idx 0 became 1; the 1-based
\* position selected, or 0 where Python raises IndexError
PickIndex(n, index) ==
  LET idx == IF index = 0 THEN 1 ELSE index
      pos == IF idx > 0 THEN idx ELSE n + idx + 1
  IN IF pos >= 1 /\ pos <= n THEN pos ELSE 0

_extract_by_nth_number(number_index, ignore_version_suffix, name) ==
  LET matches == FindNumbers(name, 1, ignore_version_suffix)
      pos == PickIndex(Len(matches), number_index)
  IN IF matches = <<>> \/ pos = 0 THEN None ELSE Some(ToInt(matches[pos]))

\* the spans (first position, position after the last) between open_tok and
\* close_tok, scanning from position start
RECURSIVE BracketSpansFrom(_, _, _, _)
BracketSpansFrom(text, open_tok, close_tok, start) ==
  IF start > Len(text) THEN <<>>
  ELSE LET s == Find(text, open_tok, start)
           e == IF s = 0 THEN 0 ELSE Find(text, close_tok, s + Len(open_tok))
       IN IF s = 0 \/ e = 0 THEN <<>>
          ELSE <<<<s + Len(open_tok), e>>>>
               \o BracketSpansFrom(text, open_tok, close_tok, e + Len(close_tok))

_find_bracket_spans(text, open_tok, close_tok) ==
  IF open_tok = <<>> \/ close_tok = <<>> THEN <<>>
  ELSE BracketSpansFrom(text, open_tok, close_tok, 1)

_extract_in_nth_bracket(open_tok, close_tok, bracket_index, ignore_version_suffix, name) ==
  LET spans == _find_bracket_spans(name, open_tok, close_tok)
      pos == PickIndex(Len(spans), bracket_index)
  IN IF spans = <<>> \/ pos = 0 THEN None
     ELSE LET segment == SubSeq(name, spans[pos][1], spans[pos][2] - 1)
              found == FindNumbers(segment, 1, ignore_version_suffix)
          IN IF found = <<>> THEN None ELSE Some(ToInt(found[1]))

\* re.search(r"\{([^}]*)\}", sample): <<start, end>> of the first "{" that a
\* "}" follows and of that "}", or <<0, 0>> when there is none
PlaceholderSpan(sample) ==
  LET opens == {p \in 1..Len(sample) :
                  sample[p] = "{" /\ \E q \in p + 1..Len(sample) : sample[q] = "}"}
  IN IF opens = {} THEN <<0, 0>>
     ELSE LET p == Least(opens)
          IN <<p, Least({q \in p + 1..Len(sample) : sample[q] = "}"})>>

\* whether _extract_by_sample(sample, ...) raises ValueError
SampleRaises(sample) == PlaceholderSpan(sample) = <<0, 0>>

\* whether (?:[vV]\d+)? followed by the literal suf (re.IGNORECASE) matches
\* at position j, with the backtracking of \d+ and of the optional group
VersionThenLit(s, j, suf, ivs) ==
  \/ LitAt(s, j, suf, TRUE)
  \/ /\ ivs
     /\ LowerC(At(s, j)) = "v"
     /\ \E r \in 1..DigitRunLen(s, j + 1) : LitAt(s, j + 1 + r, suf, TRUE)

\* the digit counts k for which pre (\d{k}) (?:[vV]\d+)? suf matches at i
SampleDigitCounts(s, i, pre, suf, ivs) ==
  IF ~LitAt(s, i, pre, TRUE) THEN {}
  ELSE {k \in 1..Min(3, DigitRunLen(s, i + Len(pre))) :
          VersionThenLit(s, i + Len(pre) + k, suf, ivs)}

\* the extractor _extract_by_sample returns, applied to name
ExtractBySample(sample, ignore_version_suffix, name) ==
  LET span == PlaceholderSpan(sample)
      pre == SubSeq(sample, 1, span[1] - 1)
      suf == SubSeq(sample, span[2] + 1, Len(sample))
      starts == {i \in 1..Len(name) + 1 :
                   SampleDigitCounts(name, i, pre, suf, ignore_version_suffix) # {}}
  IN IF starts = {} THEN None
     ELSE LET i == Least(starts)
              ks == SampleDigitCounts(name, i, pre, suf, ignore_version_suffix)
              k == CHOOSE x \in ks : \A y \in ks : y <= x
          IN Some(ToInt(SubSeq(name, i + Len(pre), i + Len(pre) + k - 1)))

\* re.search(r"season\s*(\d{1,2})", dirname, re.IGNORECASE)
_parse_season_from_dirname(dirname) ==
  LET word == <<"s", "e", "a", "s", "o", "n">>
      hits == {i \in 1..Len(dirname) :
                 /\ LitAt(dirname, i, word, TRUE)
                 /\ IsDigit(At(dirname, i + 6 + SpaceRunLen(dirname, i + 6)))}
  IN IF hits = {} THEN None
     ELSE LET i == Least(hits)
              j == i + 6 + SpaceRunLen(dirname, i + 6)
          IN Some(ToInt(SubSeq(dirname, j, j + Min(2, DigitRunLen(dirname, j)) - 1)))

\* the first 1..3 digits of the digit run at position j
Digits3(s, j) == ToInt(SubSeq(s, j, j + Min(3, DigitRunLen(s, j)) - 1))

\* S\d+E(\d{1,3}), re.IGNORECASE: the positions where it matches
SxxEyyHits(s) ==
  {i \in 1..Len(s) :
     /\ LowerOf[s[i]] = "s"
     /\ DigitRunLen(s, i + 1) >= 1
     /\ LowerC(At(s, i + 1 + DigitRunLen(s, i + 1))) = "e"
     /\ IsDigit(At(s, i + 2 + DigitRunLen(s, i + 1)))}

\* the literal alternatives of (?:E|EP|Episode|<CJK marker>) that are made of
\* characters of the alphabet, in the order the pattern tries them
EpisodeTokens ==
  << <<"E">>, <<"E", "P">>, <<"E", "p", "i", "s", "o", "d", "e">> >>

\* where the digits start if token t followed by \s*? and a digit matches at i
TokenDigitsAt(s, i, t) ==
  LET j == i + Len(t) + SpaceRunLen(s, i + Len(t))
  IN IF LitAt(s, i, t, TRUE) /\ IsDigit(At(s, j)) THEN j ELSE 0

EpisodeTokenHits(s) ==
  {i \in 1..Len(s) :
     \E n \in 1..Len(EpisodeTokens) : TokenDigitsAt(s, i, EpisodeTokens[n]) # 0}

\* \[(\d{1,3})(?:v\d+)?\], re.IGNORECASE: the positions where it matches
BracketNumberHits(s) ==
  {i \in 1..Len(s) :
     /\ s[i] = "["
     /\ DigitRunLen(s, i + 1) \in 1..3
     /\ LET j == i + 1 + DigitRunLen(s, i + 1)
        IN \/ At(s, j) = "]"
           \/ /\ LowerC(At(s, j)) = "v"
              /\ DigitRunLen(s, j + 1) >= 1
              /\ At(s, j + 1 + DigitRunLen(s, j + 1)) = "]"}

\* \s(\d{1,3})\s: the positions where it matches
SpacedNumberHits(s) ==
  {i \in 1..Len(s) :
     /\ IsSpace(s[i])
     /\ DigitRunLen(s, i + 1) \in 1..3
     /\ IsSpace(At(s, i + 1 + DigitRunLen(s, i + 1)))}

_parse_episode_from_filename(filename) ==
  IF SxxEyyHits(filename) # {}
  THEN LET i == Least(SxxEyyHits(filename))
       IN Some(Digits3(filename, i + 2 + DigitRunLen(filename, i + 1)))
  ELSE IF EpisodeTokenHits(filename) # {}
  THEN LET i == Least(EpisodeTokenHits(filename))
           n == Least({m \in 1..Len(EpisodeTokens) :
                         TokenDigitsAt(filename, i, EpisodeTokens[m]) # 0})
       IN Some(Digits3(filename, TokenDigitsAt(filename, i, EpisodeTokens[n])))
  ELSE IF BracketNumberHits(filename) # {}
  THEN Some(Digits3(filename, Least(BracketNumberHits(filename)) + 1))
  ELSE IF SpacedNumberHits(filename) # {}
  THEN Some(Digits3(filename, Least(SpacedNumberHits(filename)) + 1))
  ELSE LET numbers == FindNumbers(filename, 1, FALSE)
       IN IF numbers = <<>> THEN None ELSE Some(ToInt(numbers[Len(numbers)]))

\* f"{series} S{season:02d}E{episode:02d}{ext}"
_build_target_name(series, season, episode, ext) ==
  series \o <<" ", "S">> \o Fmt02(season) \o <<"E">> \o Fmt02(episode) \o ext

VIDEO_EXTENSIONS ==
  << <<".", "m", "k", "v">>, <<".", "m", "p", "4">>, <<".", "a", "v", "i">>,
     <<".", "m", "o", "v">>, <<".", "f", "l", "v">>, <<".", "w", "m", "v">>,
     <<".", "m", "4", "v">>, <<".", "w", "e", "b", "m">> >>

SUBTITLE_EXTENSIONS ==
  << <<".", "s", "r", "t">>, <<".", "a", "s", "s">>, <<".", "s", "s", "a">>,
     <<".", "v", "t", "t">>, <<".", "s", "u", "b">> >>

NFO_EXTENSIONS == << <<".", "n", "f", "o">> >>

TARGET_EXTENSIONS == VIDEO_EXTENSIONS \o SUBTITLE_EXTENSIONS \o NFO_EXTENSIONS

_is_target_file(filename) ==
  \E n \in 1..Len(TARGET_EXTENSIONS) :
    LET ext == TARGET_EXTENSIONS[n]
    IN /\ Len(ext) <= Len(filename)
       /\ SubSeq(Lower(filename), Len(filename) - Len(ext) + 1, Len(filename)) = ext

\* os.path.splitext(name)[1]: from the last dot, unless only dots precede it
SplitExt(name) ==
  LET dots == {i \in 1..Len(name) : name[i] = "."}
  IN IF dots = {} THEN <<>>
     ELSE LET d == CHOOSE i \in dots : \A j \in dots : j <= i
          IN IF \E i \in 1..d - 1 : name[i] # "."
             THEN SubSeq(name, d, Len(name))
             ELSE <<>>

(***************************************************************************)
(* Per-series configuration: the parsed .organizer.toml.  A key the file   *)
(* omits holds the default that config.get(key, default) gives it; doc is  *)
(* "absent" when the series has no file, "table" when the file parses to a *)
(* mapping and "invalid" when it does not.                                 *)
(***************************************************************************)
Config(doc, mode, index, sample, on_miss) ==
  [doc |-> doc, mode |-> mode, number_index |-> index,
   bracket_open |-> <<"[">>, bracket_close |-> <<"]">>, bracket_index |-> index,
   sample |-> sample, on_miss |-> on_miss, ignore_version_suffix |-> TRUE]

NoConfig == Config("absent", <<>>, 1, <<>>, <<>>)

\* str.strip()
RECURSIVE Strip(_)
Strip(s) ==
  IF s = <<>> THEN s
  ELSE IF IsSpace(s[1]) THEN Strip(Tail(s))
  ELSE IF IsSpace(s[Len(s)]) THEN Strip(SubSeq(s, 1, Len(s) - 1))
  ELSE s

\* str(config.get("mode", "")).strip().upper(), compared in lower case
NormMode(config) == Lower(Strip(config.mode))

\* whether _load_config raises for the file content
LoadRaises(config) == config.doc = "invalid"

\* BuildRaises without the checks of the mode F sample
BuildRaises_NoSampleCheck(config) ==
  NormMode(config) \notin {<<"a">>, <<"b">>, <<"f">>}

\* whether _build_extractor_from_config raises ValueError
BuildRaises(config) ==
  IF NormMode(config) \in {<<"a">>, <<"b">>}
  THEN FALSE
  ELSE IF NormMode(config) = <<"f">>
  THEN config.sample = <<>> \/ SampleRaises(config.sample)
  ELSE TRUE

\* the extractor the walker uses for a series: _parse_episode_from_filename
\* without a configuration, the one _build_extractor_from_config returns with
Extract(config, name) ==
  IF config.doc = "absent" THEN _parse_episode_from_filename(name)
  ELSE IF NormMode(config) = <<"a">>
  THEN _extract_by_nth_number(config.number_index, config.ignore_version_suffix, name)
  ELSE IF NormMode(config) = <<"b">>
  THEN _extract_in_nth_bracket(config.bracket_open, config.bracket_close,
                               config.bracket_index, config.ignore_version_suffix, name)
  ELSE ExtractBySample(config.sample, config.ignore_version_suffix, name)

\* fail_fast = (on_miss == 'error'), on_miss lower-cased and 'error' if empty
FailFast(config) ==
  /\ config.doc # "absent"
  /\ Lower(IF config.on_miss = <<>> THEN <<"e", "r", "r", "o", "r">> ELSE config.on_miss)
       = <<"e", "r", "r", "o", "r">>

(***************************************************************************)
(* The filesystem under root_dir: a function from the paths that exist (a  *)
(* path is the sequence of names below the root) to nodes.  A node keeps   *)
(* the path the entry had in the initial tree (id), which tells entries    *)
(* apart whatever they are renamed to, and for a .organizer.toml file its  *)
(* parsed content.                                                         *)
(***************************************************************************)
DirNode(id) == [kind |-> "dir", id |-> id, cfg |-> NoConfig]

FileNode(id, config) == [kind |-> "file", id |-> id, cfg |-> config]

TomlName == <<".", "o", "r", "g", "a", "n", "i", "z", "e", "r", ".", "t", "o", "m", "l">>

Season01 == <<"S", "e", "a", "s", "o", "n", " ", "0", "1">>

\* os.path.exists / isdir / isfile
Exists(f, p) == p \in DOMAIN f

IsDir(f, p) == p \in DOMAIN f /\ f[p].kind = "dir"

IsFile(f, p) == p \in DOMAIN f /\ f[p].kind = "file"

IsPrefix(a, b) == Len(a) <= Len(b) /\ SubSeq(b, 1, Len(a)) = a

\* os.listdir(d) as a set of names
ListDir(f, d) == {p[Len(p)] : p \in {q \in DOMAIN f : Len(q) = Len(d) + 1 /\ IsPrefix(d, q)}}

\* os.makedirs(p, exist_ok=True) of a directory whose parent exists
\* raises FileExistsError when p exists and is not a directory
MakedirsRaises(f, p) == IsFile(f, p)

Makedirs(f, p) ==
  IF Exists(f, p) THEN f
  ELSE [q \in DOMAIN f \cup {p} |-> IF q = p THEN DirNode(<<>>) ELSE f[q]]

\* whether os.rename(src, dst) raises whatever the device does
RenameRaises(f, src, dst) ==
  \/ ~Exists(f, src)
  \/ ~IsDir(f, SubSeq(dst, 1, Len(dst) - 1))
  \/ IsFile(f, src) /\ IsDir(f, dst)
  \/ IsDir(f, src) /\ IsFile(f, dst)
  \/ IsDir(f, src) /\ IsDir(f, dst) /\ ListDir(f, dst) # {}
  \/ IsDir(f, src) /\ IsPrefix(src, dst)

\* the tree after a successful os.rename(src, dst): src and all below it now
\* at dst, replacing what dst held (POSIX rename replaces an existing file)
Rename(f, src, dst) ==
  LET moved == {q \in DOMAIN f : IsPrefix(src, q)}
      gone == {q \in DOMAIN f : IsPrefix(dst, q)}
      At2(q) == dst \o SubSeq(q, Len(src) + 1, Len(q))
      kept == (DOMAIN f \ moved) \ gone
  IN [q \in kept \cup {At2(m) : m \in moved} |->
        IF q \in kept THEN f[q]
        ELSE f[CHOOSE m \in moved : At2(m) = q]]

\* season_dirs: the entries of the series directory that are directories
\* with a season number in their name, in sorted order
SeasonDirs(f, series_path) ==
  SelectSeq(SortedSeq(ListDir(f, series_path)),
            LAMBDA d : IsDir(f, series_path \o <<d>>)
                       /\ _parse_season_from_dirname(d) # None)

\* has_files = any(os.path.isfile(...) for e in entries)
HasFiles(f, series_path) ==
  \E e \in ListDir(f, series_path) : IsFile(f, series_path \o <<e>>)

(***************************************************************************)
(* VideoOrganizer.organize as a state machine.                             *)
(***************************************************************************)
VARIABLES
  fs,           \* the directory tree under root_dir
  dry_run,      \* self.dry_run
  pc,           \* where organize() is: idle, series, move, season, file,
                \* or how it ended: done, failed, config_error, os_error
  series_todo,  \* the series names the outer loop has not reached yet
  series_name,  \* the series being walked
  extractor,    \* the configuration the series' extractor was built from
  fail_fast,    \* fail_fast of the series being walked
  move_todo,    \* the entries still to move into Season 01
  season_todo,  \* the season directories still to walk
  season_dir,   \* the season directory being walked
  name_todo,    \* the names of the season directory still to process
  renamed,      \* renamed
  total,        \* total
  missing,      \* missing
  error_lines,  \* the paths the final RuntimeError lists
  log,          \* what this run did or reported, in order
  fs0,          \* the tree when this run started
  run,          \* how many runs were started
  prev,         \* the summary of the run before this one
  ioErrors,     \* how many moves and renames the device refused
  m_in,         \* matcher harness: the call being made
  m_out         \* matcher harness: its outcome

wvars == <<fs, dry_run, pc, series_todo, series_name, extractor, fail_fast,
           move_todo, season_todo, season_dir, name_todo, renamed, total,
           missing, error_lines, log, fs0, run, prev, ioErrors>>

mvars == <<m_in, m_out>>

vars == <<wvars, mvars>>

\* how many runs of organize() a behaviour holds
MaxRuns == 2

\* how many moves or renames the device may refuse in a behaviour
MaxIoErrors == 1

Terminal == {"done", "failed", "config_error", "os_error"}

Event(op, src, dst, existed) == [op |-> op, src |-> src, dst |-> dst, existed |-> existed]

\* the (source, destination) pairs a run renamed or reported it would rename
Renames(l) ==
  {<<l[i].src, l[i].dst>> : i \in {j \in 1..Len(l) : l[j].op \in {"renamed", "would_rename"}}}

Summary ==
  [run |-> run, dry |-> dry_run, outcome |-> pc, renames |-> Renames(log),
   renamed |-> renamed, total |-> total, start |-> fs0]

NoSummary ==
  [run |-> 0, dry |-> FALSE, outcome |-> "idle", renames |-> {},
   renamed |-> 0, total |-> 0, start |-> <<>>]

\* where the loops continue: the next name, else the next season, else the
\* next series
NextPc(names, seasons) ==
  IF names # <<>> THEN "file" ELSE IF seasons # <<>> THEN "season" ELSE "series"

\* _load_config(series_path): the content of its .organizer.toml, or NoConfig
_load_config(f, series_path) ==
  IF Exists(f, series_path \o <<TomlName>>)
  THEN f[series_path \o <<TomlName>>].cfg
  ELSE NoConfig

\* MkSeason01 without the test of dry_run
MkSeason01_IgnoreDryRun(f, season01, dry) == Makedirs(f, season01)

\* the tree after the walker's os.makedirs(season01, exist_ok=True)
MkSeason01(f, season01, dry) == IF dry THEN f ELSE Makedirs(f, season01)

\* DstExists as if the test were left out
DstExists_Never(f, dst) == FALSE

\* os.path.exists(dst) before a rename
DstExists(f, dst) == Exists(f, dst)

\* RecordMiss that forgets the path
RecordMiss_Dropped(miss, rel) == miss

\* missing.append(rel)
RecordMiss(miss, rel) == Append(miss, rel)

\* RefreshSeasonDirs that keeps the list computed before the moves
RefreshSeasonDirs_Stale(f, series_path, old) == old

\* season_dirs as recomputed after the moves into Season 01
RefreshSeasonDirs(f, series_path, old) == SeasonDirs(f, series_path)

\* VideoOrganizer(root, dry_run=d).organize() is called on the tree: the
\* first run of a behaviour is simulated or live, a later one is live
Organize ==
  /\ pc \in {"idle"} \cup Terminal
  /\ run < MaxRuns
  /\ \E d \in (IF run = 0 THEN BOOLEAN ELSE {FALSE}) : dry_run' = d
  /\ run' = run + 1
  /\ prev' = IF run = 0 THEN NoSummary ELSE Summary
  /\ fs0' = fs
  /\ renamed' = 0
  /\ total' = 0
  /\ missing' = <<>>
  /\ error_lines' = <<>>
  /\ log' = <<>>
  /\ series_todo' = SortedSeq(ListDir(fs, <<>>))
  /\ series_name' = <<>>
  /\ extractor' = NoConfig
  /\ fail_fast' = FALSE
  /\ move_todo' = <<>>
  /\ season_todo' = <<>>
  /\ season_dir' = <<>>
  /\ name_todo' = <<>>
  /\ pc' = "series"
  /\ UNCHANGED <<fs, ioErrors, mvars>>

\* one iteration of "for series_name in sorted(os.listdir(self.root_dir))" up
\* to the loop over the entries to move or over the season directories
BeginSeries ==
  /\ pc = "series"
  /\ series_todo # <<>>
  /\ LET name == Head(series_todo)
         series_path == <<name>>
         config == _load_config(fs, series_path)
         season_dirs == SeasonDirs(fs, series_path)
         season01 == series_path \o <<Season01>>
     IN /\ series_todo' = Tail(series_todo)
        /\ UNCHANGED <<dry_run, season_dir, name_todo, renamed, total, missing,
                       error_lines, fs0, run, prev, ioErrors, mvars>>
        /\ IF ~IsDir(fs, series_path)
           THEN UNCHANGED <<fs, pc, series_name, extractor, fail_fast, move_todo,
                            season_todo, log>>
           ELSE IF LoadRaises(config) \/ (config.doc # "absent" /\ BuildRaises(config))
           THEN /\ pc' = "config_error"
                /\ series_name' = name
                /\ UNCHANGED <<fs, extractor, fail_fast, move_todo, season_todo, log>>
           ELSE /\ series_name' = name
                /\ extractor' = config
                /\ fail_fast' = FailFast(config)
                /\ IF season_dirs = <<>> /\ HasFiles(fs, series_path)
                   THEN IF ~dry_run /\ MakedirsRaises(fs, season01)
                        THEN /\ pc' = "os_error"
                             /\ UNCHANGED <<fs, move_todo, season_todo, log>>
                        ELSE /\ fs' = MkSeason01(fs, season01, dry_run)
                             /\ log' = Append(log, Event(IF dry_run THEN "would_mkdir" ELSE "mkdir",
                                                         season01, season01, Exists(fs, season01)))
                             /\ move_todo' = SortedSeq(ListDir(fs, series_path))
                             /\ season_todo' = <<>>
                             /\ pc' = "move"
                   ELSE /\ season_todo' = season_dirs
                        /\ pc' = NextPc(<<>>, season_dirs)
                        /\ UNCHANGED <<fs, move_todo, log>>

\* one iteration of "for e in entries": move (or report the move of) one
\* entry into Season 01; after the last one, entries and season_dirs are
\* refreshed
MoveEntry ==
  /\ pc = "move"
  /\ move_todo # <<>>
  /\ LET e == Head(move_todo)
         series_path == <<series_name>>
         src_e == series_path \o <<e>>
         dst_e == series_path \o <<Season01, e>>
     IN \E ok \in (IF ~dry_run /\ ioErrors < MaxIoErrors THEN BOOLEAN ELSE {TRUE}) :
          LET moves == ~dry_run /\ ok /\ ~RenameRaises(fs, src_e, dst_e)
              after == IF moves THEN Rename(fs, src_e, dst_e) ELSE fs
              seasons == IF Tail(move_todo) = <<>>
                         THEN RefreshSeasonDirs(after, series_path, season_todo)
                         ELSE season_todo
          IN /\ fs' = after
             /\ ioErrors' = IF ok THEN ioErrors ELSE ioErrors + 1
             /\ log' = Append(log, Event(IF dry_run THEN "would_move"
                                         ELSE IF moves THEN "moved" ELSE "move_error",
                                         src_e, dst_e, Exists(fs, dst_e)))
             /\ move_todo' = Tail(move_todo)
             /\ season_todo' = seasons
             /\ pc' = IF Tail(move_todo) = <<>> THEN NextPc(<<>>, seasons) ELSE "move"
  /\ UNCHANGED <<dry_run, series_todo, series_name, extractor, fail_fast, season_dir,
                 name_todo, renamed, total, missing, error_lines, fs0, run, prev, mvars>>

\* one iteration of "for season_dir in season_dirs" up to the loop over the
\* names of the season directory
BeginSeason ==
  /\ pc = "season"
  /\ season_todo # <<>>
  /\ LET d == Head(season_todo)
         season_path == <<series_name, d>>
         names == IF IsDir(fs, season_path) /\ _parse_season_from_dirname(d) # None
                  THEN SortedSeq(ListDir(fs, season_path))
                  ELSE <<>>
     IN /\ season_dir' = d
        /\ season_todo' = Tail(season_todo)
        /\ name_todo' = names
        /\ pc' = NextPc(names, Tail(season_todo))
  /\ UNCHANGED <<fs, dry_run, series_todo, series_name, extractor, fail_fast, move_todo,
                 renamed, total, missing, error_lines, log, fs0, run, prev, ioErrors, mvars>>

\* one iteration of "for name in sorted(os.listdir(season_path))"
ProcessFile ==
  /\ pc = "file"
  /\ name_todo # <<>>
  /\ LET name == Head(name_todo)
         season_path == <<series_name, season_dir>>
         src == season_path \o <<name>>
         episode == Extract(extractor, name)
         season_num == _parse_season_from_dirname(season_dir)[1]
         dst == season_path
                \o <<_build_target_name(series_name, season_num, episode[1], SplitExt(name))>>
     IN /\ name_todo' = Tail(name_todo)
        /\ pc' = NextPc(Tail(name_todo), season_todo)
        /\ IF ~_is_target_file(name)
           THEN UNCHANGED <<fs, renamed, total, missing, log, ioErrors>>
           ELSE /\ total' = total + 1
                /\ IF episode = None
                   THEN /\ missing' = RecordMiss(missing, src)
                        /\ log' = Append(log, Event("miss", src, src, Exists(fs, src)))
                        /\ UNCHANGED <<fs, renamed, ioErrors>>
                   ELSE IF src = dst
                   THEN /\ log' = Append(log, Event("already", src, dst, Exists(fs, dst)))
                        /\ UNCHANGED <<fs, renamed, missing, ioErrors>>
                   ELSE IF DstExists(fs, dst)
                   THEN /\ log' = Append(log, Event("exists", src, dst, Exists(fs, dst)))
                        /\ UNCHANGED <<fs, renamed, missing, ioErrors>>
                   ELSE IF dry_run
                   THEN /\ renamed' = renamed + 1
                        /\ log' = Append(log, Event("would_rename", src, dst, Exists(fs, dst)))
                        /\ UNCHANGED <<fs, missing, ioErrors>>
                   ELSE \E ok \in (IF ioErrors < MaxIoErrors THEN BOOLEAN ELSE {TRUE}) :
                          IF ok /\ ~RenameRaises(fs, src, dst)
                          THEN /\ fs' = Rename(fs, src, dst)
                               /\ renamed' = renamed + 1
                               /\ log' = Append(log, Event("renamed", src, dst, Exists(fs, dst)))
                               /\ UNCHANGED <<missing, ioErrors>>
                          ELSE /\ ioErrors' = IF ok THEN ioErrors ELSE ioErrors + 1
                               /\ log' = Append(log, Event("rename_error", src, dst, Exists(fs, dst)))
                               /\ UNCHANGED <<fs, renamed, missing>>
  /\ UNCHANGED <<dry_run, series_todo, series_name, extractor, fail_fast, move_todo,
                 season_todo, season_dir, error_lines, fs0, run, prev, mvars>>

\* after the loop over the series: raise the summary error or return
Finish ==
  /\ pc = "series"
  /\ series_todo = <<>>
  /\ pc' = IF missing # <<>> THEN "failed" ELSE "done"
  /\ error_lines' = missing
  /\ UNCHANGED <<fs, dry_run, series_todo, series_name, extractor, fail_fast, move_todo,
                 season_todo, season_dir, name_todo, renamed, total, missing, log, fs0,
                 run, prev, ioErrors, mvars>>

(***************************************************************************)
(* The initial trees: a series "Ab" with any configuration of CfgsA, its   *)
(* entries loose or under "Season 01", and up to MaxEntries entries drawn  *)
(* from Pool; and after it in sorted order one of a few fixed arrangements *)
(* of a second series "Bb".                                                *)
(***************************************************************************)
SeriesA == <<"A", "b">>

SeriesB == <<"B", "b">>

\* how many entries of Pool the first series holds at most
MaxEntries == 2

NameE3 == <<"e", "3", ".", "m", "k", "v">>

NameX3 == <<"x", "3", ".", "m", "k", "v">>

NameX == <<"x", ".", "m", "k", "v">>

NameB5 == <<"[", "5", "]", " ", "7", ".", "m", "k", "v">>

NameCanon == <<"A", "b", " ", "S", "0", "1", "E", "0", "3", ".", "m", "k", "v">>

NameTxt == <<"n", ".", "t", "x", "t">>

NameDir == <<"d">>

Season2 == <<"s", "e", "a", "s", "o", "n", "2">>

Error == <<"e", "r", "r", "o", "r">>

Skip == <<"s", "k", "i", "p">>

Pool ==
  {[name |-> NameE3, kind |-> "file"], [name |-> NameX3, kind |-> "file"],
   [name |-> NameX, kind |-> "file"], [name |-> NameB5, kind |-> "file"],
   [name |-> NameCanon, kind |-> "file"], [name |-> NameTxt, kind |-> "file"],
   [name |-> Season01, kind |-> "file"], [name |-> NameDir, kind |-> "dir"]}

CfgA1 == Config("table", <<"A">>, 1, <<>>, Error)

CfgALast == Config("table", <<" ", "a">>, 0 - 1, <<>>, Skip)

CfgB == Config("table", <<"B">>, 1, <<>>, <<>>)

CfgF == Config("table", <<"f">>, 1, <<"[", "{", "0", "7", "}", "]">>, Skip)

CfgNoMode == Config("table", <<>>, 1, <<>>, Error)

CfgNoPlaceholder == Config("table", <<"F">>, 1, <<"e", "3">>, Error)

CfgEmptySample == Config("table", <<"F">>, 1, <<>>, Error)

CfgInvalid == Config("invalid", <<"A">>, 1, <<>>, Error)

CfgsA == {NoConfig, CfgA1, CfgALast, CfgB, CfgF, CfgNoMode, CfgNoPlaceholder}

\* the entries of one series directory: the directory, its configuration
\* file if it has one, and its entries at series level ("loose") or under
\* the season directory
SeriesEntries(series, config, layout, season, entries) ==
  LET base == IF layout = "loose" THEN <<series>> ELSE <<series, season>>
  IN {[path |-> <<series>>, node |-> DirNode(<<series>>)]}
     \cup (IF config.doc = "absent" THEN {}
           ELSE {[path |-> <<series, TomlName>>,
                  node |-> FileNode(<<series, TomlName>>, config)]})
     \cup (IF layout = "loose" THEN {}
           ELSE {[path |-> base, node |-> DirNode(base)]})
     \cup {[path |-> base \o <<e.name>>,
            node |-> IF e.kind = "dir" THEN DirNode(base \o <<e.name>>)
                     ELSE FileNode(base \o <<e.name>>, NoConfig)] : e \in entries}

File(name) == [name |-> name, kind |-> "file"]

\* the arrangements of the second series; the second one also puts a stray
\* file at root level
SetupsB ==
  { SeriesEntries(SeriesB, NoConfig, "season", Season2, {File(NameX), File(NameE3)})
      \cup {[path |-> <<NameE3>>, node |-> FileNode(<<NameE3>>, NoConfig)]},
    SeriesEntries(SeriesB, CfgEmptySample, "loose", Season2, {File(NameE3)}),
    SeriesEntries(SeriesB, CfgInvalid, "season", Season2, {File(NameE3)}),
    SeriesEntries(SeriesB, CfgA1, "loose", Season2, {File(NameE3), File(NameX3)}) }

\* the arrangements of the first series that the second series is paired with
SetupsA ==
  { SeriesEntries(SeriesA, NoConfig, "loose", Season01, {File(NameE3), File(NameX)}),
    SeriesEntries(SeriesA, CfgB, "season", Season01, {File(NameB5), File(NameX)}),
    SeriesEntries(SeriesA, CfgNoMode, "loose", Season01, {File(NameE3)}) }

FsOf(S) == [p \in {e.path : e \in S} |-> (CHOOSE e \in S : e.path = p).node]

\* the first series alone in every arrangement, and both series in the
\* arrangements of SetupsA and SetupsB
InitialTrees ==
  {FsOf(SeriesEntries(SeriesA, c, l, Season01, es)) :
     c \in CfgsA, l \in {"loose", "season"},
     es \in {x \in SUBSET Pool : Cardinality(x) <= MaxEntries}}
  \cup {FsOf(a \cup b) : a \in SetupsA, b \in SetupsB}

NoCall == [fn |-> "none", name |-> <<>>, index |-> 0, ivs |-> FALSE, sample |-> <<>>]

NoOutcome == [done |-> FALSE, raised |-> FALSE, value |-> None]

Init ==
  /\ fs \in InitialTrees
  /\ dry_run = FALSE
  /\ pc = "idle"
  /\ series_todo = <<>>
  /\ series_name = <<>>
  /\ extractor = NoConfig
  /\ fail_fast = FALSE
  /\ move_todo = <<>>
  /\ season_todo = <<>>
  /\ season_dir = <<>>
  /\ name_todo = <<>>
  /\ renamed = 0
  /\ total = 0
  /\ missing = <<>>
  /\ error_lines = <<>>
  /\ log = <<>>
  /\ fs0 = fs
  /\ run = 0
  /\ prev = NoSummary
  /\ ioErrors = 0
  /\ m_in = NoCall
  /\ m_out = NoOutcome

Next == Organize \/ BeginSeries \/ MoveEntry \/ BeginSeason \/ ProcessFile \/ Finish

Spec == Init /\ [][Next]_vars

(***************************************************************************)
(* The matchers on their own: one call of the mode A extractor, or one     *)
(* construction (and use) of the mode F extractor through                  *)
(* _build_extractor_from_config, on inputs drawn from bounded sets.        *)
(***************************************************************************)
\* the longest name and the longest sample drawn
MaxNameLen == 4

MaxSampleLen == 4

RECURSIVE StringsUpTo(_, _)
StringsUpTo(alphabet, n) ==
  IF n = 0 THEN {<<>>}
  ELSE LET shorter == StringsUpTo(alphabet, n - 1)
       IN shorter \cup {Append(t, c) : t \in shorter, c \in alphabet}

ExampleName == <<"S", "h", "o", "w", " ", "[", "0", "5", "v", "2", "]", " ", "1", "0", "8", "0", "p", ".", "m", "k", "v">>

ExampleSample == <<"[", "{", "0", "7", "}", "]", " ", "T", "i", "t", "l", "e">>

ExampleTarget == <<"[", "1", "2", "]", " ", "T", "i", "t", "l", "e", ".", "m", "k", "v">>

MatcherNames == StringsUpTo({"1", "0", "v", "p"}, MaxNameLen) \cup {ExampleName}

MatcherSamples == StringsUpTo({"{", "}", "7", "["}, MaxSampleLen) \cup {ExampleSample}

MatcherCalls ==
  {[fn |-> "A", name |-> n, index |-> i, ivs |-> b, sample |-> <<>>] :
     n \in MatcherNames, i \in 1..3, b \in BOOLEAN}
  \cup {[fn |-> "F", name |-> ExampleTarget, index |-> 0, ivs |-> TRUE, sample |-> x] :
          x \in MatcherSamples}

InitM ==
  /\ m_in \in MatcherCalls
  /\ m_out = NoOutcome
  /\ fs = <<>>
  /\ dry_run = FALSE
  /\ pc = "idle"
  /\ series_todo = <<>>
  /\ series_name = <<>>
  /\ extractor = NoConfig
  /\ fail_fast = FALSE
  /\ move_todo = <<>>
  /\ season_todo = <<>>
  /\ season_dir = <<>>
  /\ name_todo = <<>>
  /\ renamed = 0
  /\ total = 0
  /\ missing = <<>>
  /\ error_lines = <<>>
  /\ log = <<>>
  /\ fs0 = <<>>
  /\ run = 0
  /\ prev = NoSummary
  /\ ioErrors = 0

\* _extract_by_nth_number(index, ivs)(name)
CallNthNumber ==
  /\ m_in.fn = "A"
  /\ ~m_out.done
  /\ m_out' = [done |-> TRUE, raised |-> FALSE,
               value |-> _extract_by_nth_number(m_in.index, m_in.ivs, m_in.name)]
  /\ UNCHANGED <<m_in, wvars>>

\* _build_extractor_from_config({"mode": "F", "sample": sample}), and the
\* extractor it returns applied to a name
BuildSampleExtractor ==
  /\ m_in.fn = "F"
  /\ ~m_out.done
  /\ LET config == Config("table", <<"F">>, 1, m_in.sample, Error)
     IN m_out' = IF BuildRaises(config)
                 THEN [done |-> TRUE, raised |-> TRUE, value |-> None]
                 ELSE [done |-> TRUE, raised |-> FALSE,
                       value |-> Extract(config, m_in.name)]
  /\ UNCHANGED <<m_in, wvars>>

NextM == CallNthNumber \/ BuildSampleExtractor

SpecM == InitM /\ [][NextM]_vars

(***************************************************************************)
(* Properties of the matchers (checked under SpecM).                       *)
(***************************************************************************)

\* the digit runs of s from position i, each maximal, a version suffix that
\* follows a run (when ivs) not being a run of its own
RECURSIVE DigitRuns(_, _, _)
DigitRuns(s, i, ivs) ==
  IF i > Len(s) THEN <<>>
  ELSE IF IsDigit(s[i])
  THEN LET r == DigitRunLen(s, i)
           v == IF ivs THEN VersionLen(s, i + r) ELSE 0
       IN <<SubSeq(s, i, i + r - 1)>> \o DigitRuns(s, i + r + v, ivs)
  ELSE DigitRuns(s, i + 1, ivs)

\* C9: the mode A matcher returns the number_index-th digit run of the name
\* (1-based from the left, a version suffix not counted as a run), so 1080
\* for index 2 on "Show [05v2] 1080p.mkv", and absent when the name has
\* fewer digit runs than the index.
C9_NthDigitRun ==
  (m_out.done /\ m_in.fn = "A") =>
    LET runs == DigitRuns(m_in.name, 1, m_in.ivs)
    IN m_out.value = IF m_in.index <= Len(runs)
                     THEN Some(ToInt(runs[m_in.index]))
                     ELSE None

\* how many {...} placeholders a sample holds
RECURSIVE PlaceholderCount(_)
PlaceholderCount(sample) ==
  LET span == PlaceholderSpan(sample)
  IN IF span = <<0, 0>> THEN 0
     ELSE 1 + PlaceholderCount(SubSeq(sample, span[2] + 1, Len(sample)))

\* C10: building the mode F matcher fails exactly when the sample does not
\* hold exactly one {...} placeholder (none, or two or more).
C10_ExactlyOnePlaceholder ==
  (m_out.done /\ m_in.fn = "F") =>
    (m_out.raised <=> PlaceholderCount(m_in.sample) # 1)

(***************************************************************************)
(* Properties of the walker (checked under Spec).                          *)
(***************************************************************************)
Range(q) == {q[i] : i \in 1..Len(q)}

\* the configuration a series had when the current run started
Cfg0(s) == _load_config(fs0, <<s>>)

\* the events of the log about a file whose episode resolved
FileOps == {"already", "exists", "would_rename", "renamed", "rename_error"}

FileIds(f) == {f[p].id : p \in {q \in DOMAIN f : f[q].kind = "file"}}

FilePaths(f) == {q \in DOMAIN f : f[q].kind = "file"}

Completed == pc \in {"done", "failed"}

\* C1 (as amended): a live run never renames onto a path that exists, so no
\* file is lost, and never renames two sources to one destination; of the
\* files that resolve to one destination the only one renamed is the first
\* to find the destination free, every later one is skipped as "exists",
\* and none is renamed while the destination exists.
C1_NoOverwriteFirstFreeWins ==
  /\ FileIds(fs) = FileIds(fs0)
  /\ Cardinality(FilePaths(fs)) = Cardinality(FilePaths(fs0))
  /\ \A i \in 1..Len(log) :
       /\ log[i].op = "renamed" => ~log[i].existed
       /\ (log[i].op \in FileOps /\ log[i].existed) => log[i].op \in {"exists", "already"}
       /\ (log[i].op \in FileOps /\ ~log[i].existed /\ ~dry_run)
            => log[i].op \in {"renamed", "rename_error"}
       /\ \A j \in i + 1..Len(log) :
            (log[i].op = "renamed" /\ log[j].op \in FileOps /\ log[j].dst = log[i].dst)
              => log[j].op = "exists"

C1_Witness ==
  /\ Completed
  /\ ~dry_run
  /\ \E i \in 1..Len(log) : \E j \in i + 1..Len(log) :
       /\ log[i].op = "renamed"
       /\ log[j].op = "exists"
       /\ log[j].dst = log[i].dst

\* C1 (as stated): whenever several target files of a season resolve to the
\* same destination in a live run, the first in sorted order is renamed and
\* each later one is skipped as "exists".
C1_FirstInSortedOrderRenamed ==
  (~dry_run /\ ioErrors = 0) =>
    \A i \in 1..Len(log) : \A j \in i + 1..Len(log) :
      (/\ log[i].op \in FileOps
       /\ log[j].op \in FileOps
       /\ log[i].dst = log[j].dst
       /\ \A k \in 1..i - 1 : ~(log[k].op \in FileOps /\ log[k].dst = log[i].dst))
        => (log[i].op = "renamed" /\ log[j].op = "exists")

\* C2: a simulated run changes nothing in the tree, at any point of the walk.
C2_DryRunNoMutation == dry_run => fs = fs0

C2_Witness ==
  /\ pc \in Terminal
  /\ dry_run
  /\ \E i \in 1..Len(log) : log[i].op = "would_mkdir"
  /\ \E i \in 1..Len(log) : log[i].op = "would_move"
  /\ \E i \in 1..Len(log) : log[i].op = "would_rename"

\* C3: the run ends with the unresolved-files error only if some unresolved
\* file belongs to a series whose configuration has on_miss = error.
C3_FailureOnlyFromStrictSeries ==
  pc = "failed" => \E i \in 1..Len(error_lines) : FailFast(Cfg0(error_lines[i][1]))

\* C4: a second live run after a completed live run renames nothing and
\* leaves the tree as it was, every file the first run renamed being found
\* already correct.
C4_SecondRunRenamesNothing ==
  (/\ run >= 2
   /\ Completed
   /\ ~dry_run
   /\ ~prev.dry
   /\ prev.outcome \in {"done", "failed"}
   /\ ioErrors = 0)
    => /\ renamed = 0
       /\ fs = fs0
       /\ \A r \in prev.renames :
            \E i \in 1..Len(log) : log[i].op = "already" /\ log[i].src = r[2]

\* C5: the renames a simulated run reports and counts are exactly those the
\* live run on the same tree performs.
C5_DryRunReportsLiveRenames ==
  (/\ run >= 2
   /\ Completed
   /\ ~dry_run
   /\ prev.dry
   /\ prev.outcome \in {"done", "failed"}
   /\ prev.start = fs0
   /\ ioErrors = 0)
    => /\ prev.renames = Renames(log)
       /\ prev.renamed = renamed

\* a series directory of the starting tree that the walker normalizes: no
\* season subdirectory, at least one loose file
Loose0(s) ==
  /\ IsDir(fs0, <<s>>)
  /\ SeasonDirs(fs0, <<s>>) = <<>>
  /\ HasFiles(fs0, <<s>>)

\* the path at which the tree f holds the entry with identity id
PathsOfId(f, id) == {p \in DOMAIN f : f[p].id = id}

\* the canonical name of a loose entry e of series s once under Season 01
CanonicalIn01(s, e) ==
  _build_target_name(s, 1, Extract(Cfg0(s), e)[1], SplitExt(e))

\* the loose entries of s that are target files whose episode resolves
ResolvedLoose(s) ==
  {e \in ListDir(fs0, <<s>>) :
     /\ IsFile(fs0, <<s, e>>)
     /\ _is_target_file(e)
     /\ Extract(Cfg0(s), e) # None}

\* Season 01 exists under s and its entries are exactly the entries s had,
\* none left at series level
Normalized(s) ==
  /\ IsDir(fs, <<s, Season01>>)
  /\ ListDir(fs, <<s>>) = {Season01}
  /\ {fs[<<s, Season01, n>>].id : n \in ListDir(fs, <<s, Season01>>)}
       = {fs0[<<s, e>>].id : e \in ListDir(fs0, <<s>>)}
  /\ Cardinality(ListDir(fs, <<s, Season01>>)) = Cardinality(ListDir(fs0, <<s>>))
  /\ \A e \in ListDir(fs0, <<s>>) :
       PathsOfId(fs, fs0[<<s, e>>].id) # {}
       /\ \A p \in PathsOfId(fs, fs0[<<s, e>>].id) : fs[p].kind = fs0[<<s, e>>].kind

\* what the tree f holds at and below the directory of series s
Subtree(f, s) == {<<p, f[p]>> : p \in {q \in DOMAIN f : IsPrefix(<<s>>, q)}}

\* a live run that walked every series and in which no move or rename failed
CleanLiveRun == run >= 1 /\ ~dry_run /\ Completed /\ ioErrors = 0

SeasonTargets ==
  {p \in FilePaths(fs) :
     /\ Len(p) = 3
     /\ _parse_season_from_dirname(p[2]) # None
     /\ _is_target_file(p[3])}

\* the misses of the log, in order
RECURSIVE MissesOf(_)
MissesOf(l) ==
  IF l = <<>> THEN <<>>
  ELSE IF l[1].op = "miss" THEN <<l[1].src>> \o MissesOf(Tail(l))
  ELSE MissesOf(Tail(l))

\* C7: an unresolved file is recorded by its root-relative path and left
\* where it is, no rename of it is attempted, and the walk goes on through
\* every remaining file, season and series; the failure is raised only after
\* the last series, and it lists every unresolved path of the walk.
C7_MissesDeferred ==
  /\ missing = MissesOf(log)
  /\ \A i \in 1..Len(log) :
       /\ log[i].op = "miss" =>
            /\ IsFile(fs, log[i].src)
            /\ Extract(Cfg0(log[i].src[1]), log[i].src[3]) = None
       /\ log[i].op \in FileOps => Extract(Cfg0(log[i].src[1]), log[i].src[3]) # None
  /\ pc = "failed" => (series_todo = <<>> /\ missing # <<>> /\ error_lines = missing)
  /\ pc # "failed" => error_lines = <<>>
  /\ (pc = "done" => missing = <<>>)
  /\ Completed =>
       \A p \in SeasonTargets :
         \/ \E i \in 1..Len(log) : log[i].op = "renamed" /\ log[i].dst = p
         \/ IF Extract(Cfg0(p[1]), p[3]) = None
            THEN p \in Range(error_lines)
            ELSE \E i \in 1..Len(log) : log[i].op \in FileOps /\ log[i].src = p

C7_Witness ==
  /\ pc = "failed"
  /\ Len(error_lines) >= 2
  /\ error_lines[1][1] # error_lines[2][1]
  /\ \E i \in 1..Len(log) : \E j \in i + 1..Len(log) :
       /\ log[i].op = "miss"
       /\ log[j].op \in {"renamed", "would_rename"}
       /\ log[j].src[1] # log[i].src[1]

\* whether a sample holds a "{" with a "}" after it
HasPlaceholder(sample) ==
  \E p \in 1..Len(sample) : \E q \in p + 1..Len(sample) :
    sample[p] = "{" /\ sample[q] = "}"

\* a configuration in error: the document is not a mapping, mode is missing
\* or not one of A, B, F, or mode F comes with an empty sample or with a
\* sample without a placeholder
BadConfig(config) ==
  /\ config.doc # "absent"
  /\ \/ config.doc # "table"
     \/ Lower(Strip(config.mode)) \notin {<<"a">>, <<"b">>, <<"f">>}
     \/ /\ Lower(Strip(config.mode)) = <<"f">>
        /\ (config.sample = <<>> \/ ~HasPlaceholder(config.sample))

\* C8: a series whose configuration is in error is never changed by the run:
\* the run ends with the configuration error exactly when it reaches such a
\* series, with no Season 01 created, no entry moved and no file renamed in
\* that series directory.
C8_ConfigErrorBeforeMutation ==
  /\ \A s \in ListDir(fs0, <<>>) :
       (IsDir(fs0, <<s>>) /\ BadConfig(Cfg0(s))) => Subtree(fs, s) = Subtree(fs0, s)
  /\ pc = "config_error" => BadConfig(Cfg0(series_name))
  /\ (pc \in {"move", "season", "file"}) => ~BadConfig(Cfg0(series_name))

C8_Witness ==
  /\ pc = "config_error"
  /\ ~dry_run
  /\ fs # fs0
  /\ Loose0(series_name)
  /\ Subtree(fs, series_name) = Subtree(fs0, series_name)

====
